---------------------------- MODULE Spec2Model ----------------------------
(***************************************************************************)
(* A model of the VK relay: the FastAPI endpoints of main.py and the       *)
(* httpx implementation of the VK calls in vk_api.py that they import.     *)
(*                                                                         *)
(* A behaviour is the life of one request: the requests of the service     *)
(* share nothing but the immutable settings (each vk_api function opens    *)
(* its own httpx.AsyncClient).  Every outbound call of the request (the    *)
(* GET of the resource, a VK method call, the POST to an upload URL) is    *)
(* appended to `calls`, the reply the remote end gave to `replies`.        *)
(* An action is the code that runs between two awaits: it consumes the     *)
(* reply to the pending call and runs the handler up to the next outbound  *)
(* call, or up to the end of the request.                                  *)
(*                                                                         *)
(* Python strings that the code inspects (lower(), startswith(), `in`,     *)
(* strip(), int()) are tuples of one-character strings; the literal "doc"  *)
(* is T_doc.  A Python dict is a function whose DOMAIN is the set of its   *)
(* keys, so `"k" in d` is "k" \in DOMAIN d and d.get("k") is None exactly  *)
(* when "k" \notin DOMAIN d.                                               *)
(***************************************************************************)
EXTENDS Integers, Sequences, FiniteSets, TLC

(***************************************************************************)
(* Bounds of the model.                                                    *)
(***************************************************************************)
\* owner ids and item ids in save responses range over 0..MaxId
MaxId == 1

(***************************************************************************)
(* String literals of the source and of the modelled inputs.               *)
(***************************************************************************)
\* a literal is the tuple of its characters; the literals of a function of
\* the source are the fields of one record

T_Invalid_token ==
    <<"I", "n", "v", "a", "l", "i", "d", " ", "t", "o", "k", "e", "n">>

T_Internal_Server_Error ==
    <<"I", "n", "t", "e", "r", "n", "a", "l", " ", "S", "e", "r", "v", "e",
      "r", " ", "E", "r", "r", "o", "r">>

T_list_object_has_no_attribute_get ==
    <<"'", "l", "i", "s", "t", "'", " ", "o", "b", "j", "e", "c", "t", " ",
      "h", "a", "s", " ", "n", "o", " ", "a", "t", "t", "r", "i", "b", "u",
      "t", "e", " ", "'", "g", "e", "t", "'">>

T_underscore == <<"_">>

T_group_auth == <<"g", "r", "o", "u", "p", " ", "a", "u", "t", "h">>

T_image_slash == <<"i", "m", "a", "g", "e", "/">>

T_video_slash == <<"v", "i", "d", "e", "o", "/">>

T_application_octet_stream ==
    <<"a", "p", "p", "l", "i", "c", "a", "t", "i", "o", "n", "/", "o", "c",
      "t", "e", "t", "-", "s", "t", "r", "e", "a", "m">>

T_photo == <<"p", "h", "o", "t", "o">>

T_video == <<"v", "i", "d", "e", "o">>

T_doc == <<"d", "o", "c">>

T_image == <<"i", "m", "a", "g", "e">>

Upper ==
    <<"A", "B", "C", "D", "E", "F", "G", "H", "I", "J", "K", "L", "M", "N",
      "O", "P", "Q", "R", "S", "T", "U", "V", "W", "X", "Y", "Z">>

LowerLetters ==
    <<"a", "b", "c", "d", "e", "f", "g", "h", "i", "j", "k", "l", "m", "n",
      "o", "p", "q", "r", "s", "t", "u", "v", "w", "x", "y", "z">>

Digits == <<"0", "1", "2", "3", "4", "5", "6", "7", "8", "9">>

\* the literals of _summarize_response
summary_text ==
    [http |-> <<"H", "T", "T", "P", " ">>,
     content_type |-> <<"c", "o", "n", "t", "e", "n", "t", "-", "t", "y",
        "p", "e", " ">>,
     unknown |-> <<"u", "n", "k", "n", "o", "w", "n">>,
     body |-> <<"b", "o", "d", "y", ":", " ">>,
     ellipsis |-> <<".", ".", ".">>,
     comma |-> <<",", " ">>]

\* the literals of _raise_if_vk_error and _extract_response
envelope_text ==
    [vk_error |-> <<"V", "K", " ", "A", "P", "I", " ", "e", "r", "r", "o",
        "r">>,
     colon |-> <<":", " ">>,
     invalid |-> <<"I", "n", "v", "a", "l", "i", "d", " ", "r", "e", "s",
        "p", "o", "n", "s", "e", " ", "f", "r", "o", "m", " ", "V", "K", " ",
        "A", "P", "I">>]

\* the messages of _get_group_id
group_id_text ==
    [not_set |-> <<"V", "K", "_", "G", "R", "O", "U", "P", "_", "I", "D",
        " ", "i", "s", " ", "n", "o", "t", " ", "s", "e", "t">>,
     not_integer |-> <<"V", "K", "_", "G", "R", "O", "U", "P", "_", "I", "D",
        " ", "m", "u", "s", "t", " ", "b", "e", " ", "a", "n", " ", "i", "n",
        "t", "e", "g", "e", "r">>]

\* the messages of _post_vk_method
post_vk_method_text ==
    [unreachable |-> <<"F", "a", "i", "l", "e", "d", " ", "t", "o", " ", "r",
        "e", "a", "c", "h", " ", "V", "K", " ", "A", "P", "I">>,
     http_error |-> <<"V", "K", " ", "A", "P", "I", " ", "H", "T", "T", "P",
        " ", "e", "r", "r", "o", "r", " ", "(">>,
     invalid |-> <<"I", "n", "v", "a", "l", "i", "d", " ", "r", "e", "s",
        "p", "o", "n", "s", "e", " ", "f", "r", "o", "m", " ", "V", "K", " ",
        "A", "P", "I", " ", "(">>,
     close |-> <<")">>]

\* the messages of the photo upload steps;
\* the first and the third are those of the video and document uploads too
upload_text ==
    [no_upload_url |-> <<"U", "p", "l", "o", "a", "d", " ", "U", "R", "L",
        " ", "n", "o", "t", " ", "r", "e", "c", "e", "i", "v", "e", "d", " ",
        "f", "r", "o", "m", " ", "V", "K", " ", "A", "P", "I">>,
     upload_failed |-> <<"F", "a", "i", "l", "e", "d", " ", "t", "o", " ",
        "u", "p", "l", "o", "a", "d", " ", "i", "m", "a", "g", "e", " ", "t",
        "o", " ", "V", "K">>,
     invalid_upload |-> <<"I", "n", "v", "a", "l", "i", "d", " ", "u", "p",
        "l", "o", "a", "d", " ", "r", "e", "s", "p", "o", "n", "s", "e", " ",
        "f", "r", "o", "m", " ", "V", "K", " ", "A", "P", "I">>,
     not_saved |-> <<"I", "m", "a", "g", "e", " ", "w", "a", "s", " ", "n",
        "o", "t", " ", "s", "a", "v", "e", "d", " ", "b", "y", " ", "V", "K",
        " ", "A", "P", "I">>,
     invalid_photo |-> <<"I", "n", "v", "a", "l", "i", "d", " ", "p", "h",
        "o", "t", "o", " ", "d", "a", "t", "a", " ", "f", "r", "o", "m", " ",
        "V", "K", " ", "A", "P", "I">>]

\* the messages of _download_image
download_image_text ==
    [failed |-> <<"F", "a", "i", "l", "e", "d", " ", "t", "o", " ", "d", "o",
        "w", "n", "l", "o", "a", "d", " ", "i", "m", "a", "g", "e">>,
     failed_with |-> <<"F", "a", "i", "l", "e", "d", " ", "t", "o", " ", "d",
        "o", "w", "n", "l", "o", "a", "d", " ", "i", "m", "a", "g", "e", " ",
        "(">>,
     wrong_type |-> <<"U", "R", "L", " ", "d", "o", "e", "s", " ", "n", "o",
        "t", " ", "p", "o", "i", "n", "t", " ", "t", "o", " ", "a", "n", " ",
        "i", "m", "a", "g", "e", " ", "(", "c", "o", "n", "t", "e", "n", "t",
        "-", "t", "y", "p", "e", " ">>,
     empty |-> <<"D", "o", "w", "n", "l", "o", "a", "d", "e", "d", " ", "i",
        "m", "a", "g", "e", " ", "i", "s", " ", "e", "m", "p", "t", "y">>]

\* the messages of _download_video
download_video_text ==
    [failed |-> <<"F", "a", "i", "l", "e", "d", " ", "t", "o", " ", "d", "o",
        "w", "n", "l", "o", "a", "d", " ", "v", "i", "d", "e", "o">>,
     failed_with |-> <<"F", "a", "i", "l", "e", "d", " ", "t", "o", " ", "d",
        "o", "w", "n", "l", "o", "a", "d", " ", "v", "i", "d", "e", "o", " ",
        "(">>,
     wrong_type |-> <<"U", "R", "L", " ", "d", "o", "e", "s", " ", "n", "o",
        "t", " ", "p", "o", "i", "n", "t", " ", "t", "o", " ", "a", " ", "v",
        "i", "d", "e", "o", " ", "(", "c", "o", "n", "t", "e", "n", "t", "-",
        "t", "y", "p", "e", " ">>,
     empty |-> <<"D", "o", "w", "n", "l", "o", "a", "d", "e", "d", " ", "v",
        "i", "d", "e", "o", " ", "i", "s", " ", "e", "m", "p", "t", "y">>]

\* the messages of the video and document steps
video_text ==
    [upload_failed |-> <<"F", "a", "i", "l", "e", "d", " ", "t", "o", " ",
        "u", "p", "l", "o", "a", "d", " ", "v", "i", "d", "e", "o", " ", "t",
        "o", " ", "V", "K">>,
     invalid_video |-> <<"I", "n", "v", "a", "l", "i", "d", " ", "v", "i",
        "d", "e", "o", " ", "d", "a", "t", "a", " ", "f", "r", "o", "m", " ",
        "V", "K", " ", "A", "P", "I">>,
     invalid_document |-> <<"I", "n", "v", "a", "l", "i", "d", " ", "d", "o",
        "c", "u", "m", "e", "n", "t", " ", "d", "a", "t", "a", " ", "f", "r",
        "o", "m", " ", "V", "K", " ", "A", "P", "I">>]

\* texts of the modelled inputs
T_group_authorization_failed ==
    <<"g", "r", "o", "u", "p", " ", "a", "u", "t", "h", "o", "r", "i", "z",
      "a", "t", "i", "o", "n", " ", "f", "a", "i", "l", "e", "d">>

T_image_png == <<"i", "m", "a", "g", "e", "/", "p", "n", "g">>

T_IMAGE_PNG == <<"I", "M", "A", "G", "E", "/", "P", "N", "G">>

T_video_mp4 == <<"v", "i", "d", "e", "o", "/", "m", "p", "4">>

T_text_html == <<"t", "e", "x", "t", "/", "h", "t", "m", "l">>

T_application_json ==
    <<"a", "p", "p", "l", "i", "c", "a", "t", "i", "o", "n", "/", "j", "s",
      "o", "n">>

T_Group_authorization_failed ==
    <<"G", "r", "o", "u", "p", " ", "a", "u", "t", "h", "o", "r", "i", "z",
      "a", "t", "i", "o", "n", " ", "f", "a", "i", "l", "e", "d">>

T_GROUP_AUTH_REQUIRED ==
    <<"G", "R", "O", "U", "P", " ", "A", "U", "T", "H", " ", "R", "E", "Q",
      "U", "I", "R", "E", "D">>

T_Access_denied ==
    <<"A", "c", "c", "e", "s", "s", " ", "d", "e", "n", "i", "e", "d">>

T_group__auth == <<"g", "r", "o", "u", "p", " ", " ", "a", "u", "t", "h">>

T_html_Bad_Gateway ==
    <<"<", "h", "t", "m", "l", ">", "B", "a", "d", " ", "G", "a", "t", "e",
      "w", "a", "y", "<", "/", "h", "t", "m", "l", ">">>

T__group___auth_ ==
    <<" ", "g", "r", "o", "u", "p", " ", " ", " ", "a", "u", "t", "h", " ">>

T_hello == <<"h", "e", "l", "l", "o">>

T__Hi__there_ == <<" ", "H", "i", " ", " ", "t", "h", "e", "r", "e", " ">>

T_cat_jpg == <<"c", "a", "t", ".", "j", "p", "g">>

T_clip == <<"c", "l", "i", "p">>

T_abc == <<"a", "b", "c">>

T_k1 == <<"k", "1">>

T_100 == <<"1", "0", "0">>

T_minus_100 == <<"-", "1", "0", "0">>

T__7_ == <<" ", "7", " ">>

T_0 == <<"0">>

T_blank == <<" ">>


(***************************************************************************)
(* Python string operations.                                               *)
(***************************************************************************)
IndexOf(c, s) == CHOOSE i \in 1..Len(s) : s[i] = c

IsIn(c, s) == \E i \in 1..Len(s) : s[i] = c

\* str.lower() on one character
LowerChar(c) == IF IsIn(c, Upper) THEN LowerLetters[IndexOf(c, Upper)] ELSE c

\* str.lower()
Lower(s) == [i \in 1..Len(s) |-> LowerChar(s[i])]

\* str.startswith(prefix)
StartsWith(s, prefix) ==
    /\ Len(s) >= Len(prefix)
    /\ SubSeq(s, 1, Len(prefix)) = prefix

RECURSIVE FindFrom(_, _, _)
\* str.find: the first index >= i at which sub occurs in s, 0 when none
FindFrom(s, sub, i) ==
    IF i + Len(sub) - 1 > Len(s) THEN 0
    ELSE IF SubSeq(s, i, i + Len(sub) - 1) = sub THEN i
    ELSE FindFrom(s, sub, i + 1)

\* `sub in s`
Contains(s, sub) == FindFrom(s, sub, 1) > 0

IsSpace(c) == c = " "

RECURSIVE LStrip(_)
LStrip(s) == IF s # <<>> /\ IsSpace(Head(s)) THEN LStrip(Tail(s)) ELSE s

RECURSIVE RStrip(_)
RStrip(s) ==
    IF s # <<>> /\ IsSpace(s[Len(s)]) THEN RStrip(SubSeq(s, 1, Len(s) - 1)) ELSE s

\* str.strip()
Strip(s) == RStrip(LStrip(s))

RECURSIVE CollapseSpaces(_)
\* " ".join(s.split()) on an already stripped string: every run of
\* whitespace becomes one space
CollapseSpaces(s) ==
    IF Len(s) < 2 THEN s
    ELSE IF IsSpace(s[1]) /\ IsSpace(s[2]) THEN CollapseSpaces(Tail(s))
    ELSE <<s[1]>> \o CollapseSpaces(Tail(s))

RECURSIVE NatStr(_)
NatStr(n) ==
    IF n < 10 THEN <<Digits[n + 1]>>
    ELSE NatStr(n \div 10) \o <<Digits[(n % 10) + 1]>>

\* the text an f-string gives an int
Str(n) == IF n < 0 THEN <<"-">> \o NatStr(-n) ELSE NatStr(n)

IsDigit(c) == IsIn(c, Digits)

DigitValue(c) == IndexOf(c, Digits) - 1

RECURSIVE DigitsValue(_, _)
\* the value of a run of digits and underscores, acc the value so far
DigitsValue(s, acc) ==
    IF s = <<>> THEN acc
    ELSE IF s[1] = "_" THEN DigitsValue(Tail(s), acc)
    ELSE DigitsValue(Tail(s), 10 * acc + DigitValue(s[1]))

\* int() accepts digits with single underscores between digits
IsDigitRun(s) ==
    /\ s # <<>>
    /\ IsDigit(s[1])
    /\ IsDigit(s[Len(s)])
    /\ \A i \in 1..Len(s) : IsDigit(s[i]) \/ s[i] = "_"
    /\ \A i \in 1..(Len(s) - 1) : ~(s[i] = "_" /\ s[i + 1] = "_")

\* int(s) raises ValueError
IntRaises(s) ==
    LET b == Strip(s)
        u == IF b # <<>> /\ b[1] \in {"+", "-"} THEN Tail(b) ELSE b
    IN  ~IsDigitRun(u)

\* int(s) for a string int() accepts
IntOf(s) ==
    LET b == Strip(s)
        neg == b # <<>> /\ b[1] = "-"
        u == IF b # <<>> /\ b[1] \in {"+", "-"} THEN Tail(b) ELSE b
    IN  IF neg THEN -DigitsValue(u, 0) ELSE DigitsValue(u, 0)

Abs(n) == IF n < 0 THEN -n ELSE n

(***************************************************************************)
(* Optional values: None is the empty tuple, a present value v is <<v>>.   *)
(***************************************************************************)
None == <<>>

Some(v) == <<v>>

(***************************************************************************)
(* The inputs of the model: the environment the settings are read from,    *)
(* the payloads of the callers, and the replies of the remote ends.        *)
(***************************************************************************)
\* VK_GROUP_ID values; `integer` says whether the text is an integer
\* literal and `value` is the integer it denotes (0 when it is not one)
GroupIdCases ==
    { [text |-> T_100,  integer |-> TRUE,  value |-> 100],
      [text |-> T_minus_100, integer |-> TRUE,  value |-> -100],
      [text |-> T__7_,  integer |-> TRUE,  value |-> 7],
      [text |-> T_0,    integer |-> TRUE,  value |-> 0],
      [text |-> T_abc,  integer |-> FALSE, value |-> 0],
      [text |-> T_blank,    integer |-> FALSE, value |-> 0],
      [text |-> <<>>,          integer |-> FALSE, value |-> 0] }

GroupIdSettings == {None} \cup {Some(c.text) : c \in GroupIdCases}

Tokens == {"secret", "wrong"}

Messages == {T_hello, T__Hi__there_}

\* a URL is its path name (the last path segment)
ImageUrls == {[name |-> T_cat_jpg], [name |-> T_clip]}

VideoUrls == {[name |-> T_clip]}

Server == [Server |-> "nginx"]

Header(content_type) == Server @@ ("Content-Type" :> content_type)

\* the transport raised httpx.RequestError
RequestError ==
    [transport |-> "RequestError", status |-> 0, headers |-> Server,
     text |-> <<>>, json |-> None]

\* a reply whose body is not JSON
TextReply(status, headers, text) ==
    [transport |-> "ok", status |-> status, headers |-> headers,
     text |-> text, json |-> None]

\* a reply whose body decodes to the JSON value v
JsonReply(status, text, v) ==
    [transport |-> "ok", status |-> status,
     headers |-> Header(T_application_json), text |-> text,
     json |-> Some(v)]

\* replies to the GET of an image or a video
DownloadReplies ==
    {RequestError,
     TextReply(404, Header(T_text_html), T_html_Bad_Gateway)}
    \cup {TextReply(200, h, b) :
            h \in {Server, Header(<<>>)}
                  \cup {Header(c) :
                          c \in {T_image_png, T_IMAGE_PNG, T_video_mp4,
                                 T_application_octet_stream, T_text_html}},
            b \in {T_abc, <<>>}}

\* error_msg texts of VK
ErrorMsgs ==
    {T_Group_authorization_failed, T_GROUP_AUTH_REQUIRED,
     T_Access_denied, T_group__auth}

\* replies to a VK method call that carry no usable envelope
MethodFailures ==
    {RequestError,
     TextReply(500, Header(T_text_html), T_html_Bad_Gateway),
     TextReply(403, Server, T__group___auth_),
     TextReply(200, Header(T_text_html), T_html_Bad_Gateway)}

\* envelopes with an `error` object
ErrorEnvelopes ==
    {[error |-> [error_msg |-> m]] : m \in ErrorMsgs}
    \cup {[error |-> [error_code |-> 5]]}

\* an envelope with neither `error` nor `response`
BareEnvelopes == {[ok |-> 1]}

Ids == 0..MaxId

OwnerIds == {-MaxId, MaxId}

UploadUrls == {"https://pu.vk.com/c1/upload", ""}

\* the JSON value []; every JSON object of the model has a key
EmptyList == <<>>

\* `response` of the get...UploadServer methods
UploadInfos ==
    {[upload_url |-> u] : u \in UploadUrls} \cup {[album_id |-> 1], EmptyList}

\* JSON bodies of a photo upload
PhotoUploadPayloads ==
    {[server |-> 1, photo |-> "[]", hash |-> "h"],
     [server |-> 1, photo |-> "[]"],
     [error |-> "bad"], EmptyList}

\* JSON bodies of a document upload
DocUploadPayloads ==
    {[file |-> "tok"], [file |-> ""], [error |-> "bad"], EmptyList}

AccessKeys == {T_k1, <<>>}

\* entries of a photo save response
PhotoInfos ==
    {[owner_id |-> o, id |-> i] : o \in OwnerIds, i \in Ids}
    \cup {[owner_id |-> o, id |-> MaxId, access_key |-> k] :
            o \in {-MaxId}, k \in AccessKeys}
    \cup {[owner_id |-> -MaxId], [id |-> MaxId]}

\* `response` of photos.saveWallPhoto and photos.saveMessagesPhoto
PhotoSaveResponses == {<<>>} \cup {<<p>> : p \in PhotoInfos}

\* `response` of video.save
VideoSaveResponses ==
    {[upload_url |-> u, owner_id |-> -MaxId, video_id |-> i] :
        u \in UploadUrls, i \in Ids}
    \cup {[upload_url |-> "https://pu.vk.com/c1/upload", owner_id |-> o,
           video_id |-> 0, vid |-> MaxId] : o \in OwnerIds}
    \cup {[upload_url |-> "https://pu.vk.com/c1/upload", owner_id |-> -MaxId,
           video_id |-> MaxId, access_key |-> k] : k \in AccessKeys}
    \cup {[upload_url |-> "https://pu.vk.com/c1/upload", video_id |-> MaxId],
          [upload_url |-> "https://pu.vk.com/c1/upload", owner_id |-> -MaxId],
          [owner_id |-> -MaxId, video_id |-> MaxId], EmptyList}

\* doc records of a docs.save response
DocInfos ==
    {[owner_id |-> MaxId, id |-> i] : i \in Ids}
    \cup {[owner_id |-> MaxId, id |-> 0, doc_id |-> MaxId],
          [owner_id |-> MaxId, id |-> MaxId, access_key |-> T_k1],
          [id |-> MaxId]}

\* `response` of docs.save that is a dict
DocSaveDicts ==
    {[doc |-> d] : d \in DocInfos}
    \cup {[type |-> "doc", doc |-> d] : d \in DocInfos}
    \cup {[type |-> "doc"], [type |-> "graffiti", graffiti |-> 1]}

\* `response` of docs.save that is a list
DocSaveLists == {<<>>} \cup {<<d>> : d \in DocInfos}

\* JSON null as the `response` of docs.save
JsonNull == "null"

\* `response` of docs.save by its Python type
DocSaveResponses(type) ==
    CASE type = "dict" -> DocSaveDicts
      [] type = "list" -> DocSaveLists
      [] type = "int" -> {MaxId}
      [] type = "NoneType" -> {JsonNull}

\* `response` of messages.send and wall.post: the id of the message or post
SendResponses == {MaxId}

(***************************************************************************)
(* Results of the functions that can raise: `exc` is the class of the      *)
(* exception raised ("none" when the function returned), `msg` is          *)
(* str(exc) and `data` the value returned.                                 *)
(***************************************************************************)
Ok(v) == [exc |-> "none", msg |-> <<>>, data |-> v]

VkApiError(msg) == [exc |-> "VkApiError", msg |-> msg, data |-> None]

ConfigError(msg) == [exc |-> "ConfigError", msg |-> msg, data |-> None]

\* value.get(key) of a value that is a list: Python raises AttributeError
ListHasNoGet ==
    [exc |-> "AttributeError", msg |-> T_list_object_has_no_attribute_get,
     data |-> None]

(***************************************************************************)
(* vk_api.py: the helpers.                                                 *)
(***************************************************************************)
\* the body snippet is cut after this many characters
SnippetLimit == 200

summarize_response(response) ==
    LET content_type ==
            IF "Content-Type" \in DOMAIN response.headers
            THEN response.headers["Content-Type"] ELSE summary_text.unknown
        text == Strip(response.text)
        joined == CollapseSpaces(text)
        snippet == IF Len(joined) > SnippetLimit
                   THEN SubSeq(joined, 1, SnippetLimit) \o summary_text.ellipsis
                   ELSE joined
        head == summary_text.http \o Str(response.status) \o summary_text.comma
                \o summary_text.content_type \o content_type
    IN  IF text # <<>> THEN head \o summary_text.comma \o summary_text.body \o snippet
        ELSE head

\* settings.vk_api_url is kept as its "/"-separated parts after the scheme
method_url(s, method) ==
    SubSeq(s.vk_api_url, 1, Len(s.vk_api_url) - 1) \o <<method>>

\* the characters of a method name
MethodName(method) ==
    CASE method = "messages.send" ->
            <<"m", "e", "s", "s", "a", "g", "e", "s", ".", "s", "e", "n",
              "d">>
      [] method = "wall.post" ->
              <<"w", "a", "l", "l", ".", "p", "o", "s", "t">>
      [] method = "photos.getWallUploadServer" ->
              <<"p", "h", "o", "t", "o", "s", ".", "g", "e", "t", "W", "a",
                "l", "l", "U", "p", "l", "o", "a", "d", "S", "e", "r", "v",
                "e", "r">>
      [] method = "photos.saveWallPhoto" ->
              <<"p", "h", "o", "t", "o", "s", ".", "s", "a", "v", "e", "W",
                "a", "l", "l", "P", "h", "o", "t", "o">>
      [] method = "photos.getMessagesUploadServer" ->
              <<"p", "h", "o", "t", "o", "s", ".", "g", "e", "t", "M", "e",
                "s", "s", "a", "g", "e", "s", "U", "p", "l", "o", "a", "d",
                "S", "e", "r", "v", "e", "r">>
      [] method = "photos.saveMessagesPhoto" ->
              <<"p", "h", "o", "t", "o", "s", ".", "s", "a", "v", "e", "M",
                "e", "s", "s", "a", "g", "e", "s", "P", "h", "o", "t", "o">>
      [] method = "video.save" ->
              <<"v", "i", "d", "e", "o", ".", "s", "a", "v", "e">>
      [] method = "docs.getMessagesUploadServer" ->
              <<"d", "o", "c", "s", ".", "g", "e", "t", "M", "e", "s", "s",
                "a", "g", "e", "s", "U", "p", "l", "o", "a", "d", "S", "e",
                "r", "v", "e", "r">>
      [] method = "docs.save" ->
              <<"d", "o", "c", "s", ".", "s", "a", "v", "e">>

\* the message of the VkApiError raised for an envelope, None when none is
raise_if_vk_error(data, method) ==
    IF "error" \in DOMAIN data
    THEN LET message == IF "error_msg" \in DOMAIN data["error"]
                        THEN data["error"]["error_msg"]
                        ELSE envelope_text.vk_error
         IN  IF method # None
             THEN Some(MethodName(method[1]) \o envelope_text.colon \o message)
             ELSE Some(message)
    ELSE None

extract_response(data) ==
    IF raise_if_vk_error(data, None) # None
    THEN VkApiError(raise_if_vk_error(data, None)[1])
    ELSE IF "response" \notin DOMAIN data
    THEN VkApiError(envelope_text.invalid)
    ELSE Ok(data["response"])

\* a variant that forgets abs()
get_group_id_signed(s) ==
    IF s.vk_group_id = None \/ s.vk_group_id[1] = <<>>
    THEN ConfigError(group_id_text.not_set)
    ELSE IF IntRaises(Strip(s.vk_group_id[1]))
    THEN ConfigError(group_id_text.not_integer)
    ELSE Ok(IntOf(Strip(s.vk_group_id[1])))

\* a variant that reports a bad group id as a VkApiError
get_group_id_remote(s) ==
    IF s.vk_group_id = None \/ s.vk_group_id[1] = <<>>
    THEN VkApiError(group_id_text.not_set)
    ELSE IF IntRaises(Strip(s.vk_group_id[1]))
    THEN VkApiError(group_id_text.not_integer)
    ELSE Ok(Abs(IntOf(Strip(s.vk_group_id[1]))))

get_group_id(s) ==
    IF s.vk_group_id = None \/ s.vk_group_id[1] = <<>>
    THEN ConfigError(group_id_text.not_set)
    ELSE IF IntRaises(Strip(s.vk_group_id[1]))
    THEN ConfigError(group_id_text.not_integer)
    ELSE Ok(Abs(IntOf(Strip(s.vk_group_id[1]))))

get_group_owner_id(s) ==
    IF get_group_id(s).exc # "none" THEN get_group_id(s)
    ELSE Ok(-get_group_id(s).data)

\* the form data of a method call: the credentials, overridden by `data`
method_payload(s, data) ==
    data @@ [access_token |-> s.vk_access_token, v |-> s.vk_api_version]

\* the outbound POST of _post_vk_method
MethodCall(s, method, data) ==
    [kind |-> "method", method |-> method, url |-> method_url(s, method),
     data |-> method_payload(s, data)]

\* a variant that decodes the body before it looks at the status
post_vk_method_decodes_first(method, response) ==
    IF response.transport = "RequestError"
    THEN VkApiError(post_vk_method_text.unreachable)
    ELSE IF response.json = None
    THEN VkApiError(post_vk_method_text.invalid
                    \o summarize_response(response) \o post_vk_method_text.close)
    ELSE IF raise_if_vk_error(response.json[1], Some(method)) # None
    THEN VkApiError(raise_if_vk_error(response.json[1], Some(method))[1])
    ELSE Ok(response.json[1])

\* _post_vk_method once the POST has been answered by `response`
post_vk_method(method, response) ==
    IF response.transport = "RequestError"
    THEN VkApiError(post_vk_method_text.unreachable)
    ELSE IF response.status >= 400
    THEN VkApiError(post_vk_method_text.http_error
                    \o summarize_response(response) \o post_vk_method_text.close)
    ELSE IF response.json = None
    THEN VkApiError(post_vk_method_text.invalid
                    \o summarize_response(response) \o post_vk_method_text.close)
    ELSE IF raise_if_vk_error(response.json[1], Some(method)) # None
    THEN VkApiError(raise_if_vk_error(response.json[1], Some(method))[1])
    ELSE Ok(response.json[1])

\* mimetypes.guess_extension for the content types of the model
guess_extension(type) ==
    CASE type =
            <<"i", "m", "a", "g", "e", "/", "j", "p", "e",
              "g">> -> Some(<<".", "j", "p", "g">>)
      [] type = T_image_png -> Some(<<".", "p", "n", "g">>)
      [] type = T_video_mp4 -> Some(<<".", "m", "p", "4">>)
      [] type = T_application_octet_stream -> Some(<<".", "b", "i", "n">>)
      [] type = T_text_html -> Some(<<".", "h", "t", "m", "l">>)
      [] OTHER -> None

\* the content types of the model carry no ";" parameter
filename_from_url(url, content_type) ==
    LET name == IF url.name # <<>> THEN url.name ELSE T_image
    IN  IF ~IsIn(".", name) /\ content_type # None /\ content_type[1] # <<>>
           /\ guess_extension(Strip(content_type[1])) # None
        THEN name \o guess_extension(Strip(content_type[1]))[1]
        ELSE name

\* response.headers.get("Content-Type")
content_type_of(response) ==
    IF "Content-Type" \in DOMAIN response.headers
    THEN Some(response.headers["Content-Type"]) ELSE None

\* a variant that lets a video pass as an image
image_type_rejected_video_too(content_type) ==
    /\ content_type # None
    /\ content_type[1] # <<>>
    /\ ~StartsWith(Lower(content_type[1]), T_image_slash)
    /\ ~StartsWith(Lower(content_type[1]), T_video_slash)

\* the test `content_type and not content_type.lower().startswith("image/")`
image_type_rejected(content_type) ==
    /\ content_type # None
    /\ content_type[1] # <<>>
    /\ ~StartsWith(Lower(content_type[1]), T_image_slash)

\* the test of _download_video on the content type
video_type_rejected(content_type) ==
    /\ content_type # None
    /\ content_type[1] # <<>>
    /\ ~(\/ StartsWith(Lower(content_type[1]), T_video_slash)
         \/ StartsWith(Lower(content_type[1]), T_application_octet_stream))

\* _download_image once the GET has been answered by `response`
download_image(image_url, response) ==
    IF response.transport = "RequestError"
    THEN VkApiError(download_image_text.failed)
    ELSE IF response.status >= 400
    THEN VkApiError(download_image_text.failed_with
                    \o summarize_response(response) \o post_vk_method_text.close)
    ELSE IF image_type_rejected(content_type_of(response))
    THEN VkApiError(download_image_text.wrong_type
                    \o content_type_of(response)[1] \o post_vk_method_text.close)
    ELSE IF response.text = <<>>
    THEN VkApiError(download_image_text.empty)
    ELSE Ok([content |-> response.text,
             content_type |-> content_type_of(response),
             filename |-> filename_from_url(image_url, content_type_of(response))])

\* _download_video once the GET has been answered by `response`
download_video(video_url, response) ==
    IF response.transport = "RequestError"
    THEN VkApiError(download_video_text.failed)
    ELSE IF response.status >= 400
    THEN VkApiError(download_video_text.failed_with
                    \o summarize_response(response) \o post_vk_method_text.close)
    ELSE IF video_type_rejected(content_type_of(response))
    THEN VkApiError(download_video_text.wrong_type
                    \o content_type_of(response)[1] \o post_vk_method_text.close)
    ELSE IF response.text = <<>>
    THEN VkApiError(download_video_text.empty)
    ELSE Ok([content |-> response.text,
             content_type |-> content_type_of(response),
             filename |-> filename_from_url(video_url, content_type_of(response))])

\* the multipart file of an upload: (filename, bytes, content type)
FilePart(file) ==
    <<file.filename, file.content,
      IF file.content_type # None /\ file.content_type[1] # <<>>
      THEN file.content_type[1] ELSE T_application_octet_stream>>

\* the outbound POST of a file to an upload URL under a multipart field
UploadCall(upload_url, field, file) ==
    [kind |-> "upload", url |-> upload_url, field |-> field,
     file |-> FilePart(file)]

\* the outbound GET of a resource
DownloadCall(url) == [kind |-> "download", url |-> url]

\* f"{prefix}{owner_id}_{item_id}", with f"_{access_key}" for a truthy key
Attachment(prefix, owner_id, item_id, info) ==
    LET attachment == prefix \o Str(owner_id) \o T_underscore \o Str(item_id)
    IN  IF "access_key" \in DOMAIN info /\ info["access_key"] # <<>>
        THEN attachment \o T_underscore \o info["access_key"]
        ELSE attachment

\* a variant that puts 0 for an identifier the item lacks
photo_attachment_defaulting(save_response) ==
    IF save_response = <<>>
    THEN VkApiError(upload_text.not_saved)
    ELSE LET photo_info == save_response[1]
         IN  Ok(Attachment(T_photo,
                           IF "owner_id" \in DOMAIN photo_info
                           THEN photo_info["owner_id"] ELSE 0,
                           IF "id" \in DOMAIN photo_info
                           THEN photo_info["id"] ELSE 0,
                           photo_info))

\* a photo save response item turned into an attachment
photo_attachment(save_response) ==
    IF save_response = <<>>
    THEN VkApiError(upload_text.not_saved)
    ELSE LET photo_info == save_response[1]
         IN  IF "owner_id" \notin DOMAIN photo_info \/ "id" \notin DOMAIN photo_info
             THEN VkApiError(upload_text.invalid_photo)
             ELSE Ok(Attachment(T_photo, photo_info["owner_id"],
                                photo_info["id"], photo_info))

\* the steps shared by the orchestrators -----------------------------------

\* a get...UploadServer call answered: the upload URL of the reply
upload_url_of(method, response) ==
    LET upload_data == post_vk_method(method, response)
    IN  IF upload_data.exc # "none" THEN upload_data
        ELSE LET upload_info == extract_response(upload_data.data)
             IN  IF upload_info.exc # "none" THEN upload_info
                 ELSE IF upload_info.data = EmptyList THEN ListHasNoGet
                 ELSE IF \/ "upload_url" \notin DOMAIN upload_info.data
                         \/ upload_info.data["upload_url"] = ""
                 THEN VkApiError(upload_text.no_upload_url)
                 ELSE Ok(upload_info.data["upload_url"])

\* the POST of a photo to the upload URL answered: the upload payload
photo_upload_payload(response) ==
    IF response.transport = "RequestError"
    THEN VkApiError(upload_text.upload_failed)
    ELSE IF response.json = None
    THEN VkApiError(upload_text.invalid_upload)
    ELSE IF {"server", "photo", "hash"} \subseteq DOMAIN response.json[1]
    THEN Ok(response.json[1])
    ELSE VkApiError(upload_text.invalid_upload)

\* a photo save call answered: the attachment of the saved photo
saved_photo_attachment(method, response) ==
    LET save_data == post_vk_method(method, response)
    IN  IF save_data.exc # "none" THEN save_data
        ELSE LET save_response == extract_response(save_data.data)
             IN  IF save_response.exc # "none" THEN save_response
                 ELSE photo_attachment(save_response.data)

\* video.save answered: the save response, which carries the upload URL
video_save_response(response) ==
    LET save_data == post_vk_method("video.save", response)
    IN  IF save_data.exc # "none" THEN save_data
        ELSE LET save_response == extract_response(save_data.data)
             IN  IF save_response.exc # "none" THEN save_response
                 ELSE IF save_response.data = EmptyList THEN ListHasNoGet
                 ELSE IF \/ "upload_url" \notin DOMAIN save_response.data
                         \/ save_response.data["upload_url"] = ""
                 THEN VkApiError(upload_text.no_upload_url)
                 ELSE save_response

\* save_response.get("video_id") or save_response.get("vid")
video_id_of(save_response) ==
    IF "video_id" \in DOMAIN save_response /\ save_response["video_id"] # 0
    THEN Some(save_response["video_id"])
    ELSE IF "vid" \in DOMAIN save_response THEN Some(save_response["vid"])
    ELSE None

\* the POST of the video to the upload URL answered: the video attachment
video_attachment(save_response, response) ==
    IF response.transport = "RequestError"
    THEN VkApiError(video_text.upload_failed)
    ELSE IF response.status >= 400
    THEN VkApiError(video_text.upload_failed)
    ELSE IF "owner_id" \notin DOMAIN save_response \/ video_id_of(save_response) = None
    THEN VkApiError(video_text.invalid_video)
    ELSE Ok(Attachment(T_video, save_response["owner_id"],
                       video_id_of(save_response)[1], save_response))

\* the POST of the document to the upload URL answered: the file token
doc_file_token(response) ==
    IF response.transport = "RequestError"
    THEN VkApiError(video_text.upload_failed)
    ELSE IF response.json = None
    THEN VkApiError(upload_text.invalid_upload)
    ELSE IF response.json[1] = EmptyList
    THEN ListHasNoGet
    ELSE IF "file" \notin DOMAIN response.json[1] \/ response.json[1]["file"] = ""
    THEN VkApiError(upload_text.invalid_upload)
    ELSE Ok(response.json[1]["file"])

\* a variant that takes a dict only when its `type` is "doc"
extract_doc_info_typed_only(shape, save_response) ==
    IF /\ shape = "dict"
       /\ "type" \in DOMAIN save_response
       /\ save_response["type"] = "doc"
       /\ "doc" \in DOMAIN save_response
    THEN Ok(save_response["doc"])
    ELSE IF shape = "list" /\ save_response # <<>>
    THEN Ok(save_response[1])
    ELSE VkApiError(video_text.invalid_document)

\* _extract_doc_info; `shape` is type(save_response): "dict", "list",
\* "int" or "NoneType"
extract_doc_info(shape, save_response) ==
    IF shape = "dict" /\ "doc" \in DOMAIN save_response
    THEN Ok(save_response["doc"])
    ELSE IF /\ shape = "dict"
            /\ "type" \in DOMAIN save_response
            /\ save_response["type"] = "doc"
            /\ "doc" \in DOMAIN save_response
    THEN Ok(save_response["doc"])
    ELSE IF shape = "list" /\ save_response # <<>>
    THEN Ok(save_response[1])
    ELSE VkApiError(video_text.invalid_document)

\* doc_info.get("id") or doc_info.get("doc_id")
doc_id_of(doc_info) ==
    IF "id" \in DOMAIN doc_info /\ doc_info["id"] # 0
    THEN Some(doc_info["id"])
    ELSE IF "doc_id" \in DOMAIN doc_info THEN Some(doc_info["doc_id"])
    ELSE None

\* docs.save answered: the attachment of the saved document
doc_attachment(shape, response) ==
    LET save_data == post_vk_method("docs.save", response)
    IN  IF save_data.exc # "none" THEN save_data
        ELSE LET save_response == extract_response(save_data.data)
             IN  IF save_response.exc # "none" THEN save_response
                 ELSE LET doc_info == extract_doc_info(shape, save_response.data)
                      IN  IF doc_info.exc # "none" THEN doc_info
                          ELSE IF \/ "owner_id" \notin DOMAIN doc_info.data
                                  \/ doc_id_of(doc_info.data) = None
                          THEN VkApiError(video_text.invalid_document)
                          ELSE Ok(Attachment(T_doc, doc_info.data["owner_id"],
                                             doc_id_of(doc_info.data)[1],
                                             doc_info.data))

\* the form data of the messages.send that carries an attachment
attachment_data(s, attachment) ==
    [peer_id |-> s.vk_peer_id, attachment |-> attachment, random_id |-> 0]

\* a variant that trims the text
send_message_data_stripped(s, message) ==
    [peer_id |-> s.vk_peer_id, message |-> Strip(message), random_id |-> 0]

\* the form data of send_message
send_message_data(s, message) ==
    [peer_id |-> s.vk_peer_id, message |-> message, random_id |-> 0]

\* a variant that looks for the whole phrase
group_auth_in_whole_phrase(msg) ==
    Contains(Lower(msg), T_group_authorization_failed)

\* the test of the except clause of send_video_url
group_auth_in(msg) == Contains(Lower(msg), T_group_auth)

\* a reply whose body has a `response`, with the Python type of it
Typed(reply, type) ==
    IF reply.json # None /\ "response" \in DOMAIN reply.json[1]
    THEN reply @@ [response_type |-> type]
    ELSE reply

(***************************************************************************)
(* The replies a VK method call can get when its `response` is in S.       *)
(***************************************************************************)
MethodReplies(S) ==
    MethodFailures
    \cup {JsonReply(200, <<>>, e) : e \in ErrorEnvelopes \cup BareEnvelopes}
    \cup {JsonReply(200, <<>>, [response |-> r]) : r \in S}
    \cup {JsonReply(400, <<>>, [response |-> r]) : r \in S}

\* replies to the POST of a file whose JSON body is in S
UploadReplies(S) ==
    {RequestError,
     TextReply(200, Header(T_text_html), T_html_Bad_Gateway)}
    \cup {JsonReply(200, <<>>, p) : p \in S}

\* replies to the POST of a video file: only the status is read
VideoUploadReplies ==
    {RequestError,
     TextReply(500, Header(T_text_html), T_html_Bad_Gateway),
     JsonReply(200, <<>>, [size |-> 3])}

(***************************************************************************)
(* The state.                                                              *)
(***************************************************************************)
VARIABLES
    settings,   \* config.py: the Settings value of get_settings()
    request,    \* the request in progress: the endpoint and its payload
    pc,         \* "idle", the outbound call the request awaits, or "done"
    frame,      \* the local variables that live across the awaits
    calls,      \* the outbound calls of the request, in the order issued
    replies,    \* replies[i] is the reply to calls[i]
    outcome,    \* what the caller of the request received
    raised,     \* the exceptions raised while handling the request
    running,    \* which of the two requests the variables above describe
    suspended   \* the other request: its coroutine as it was left

vars ==
    <<settings, request, pc, frame, calls, replies, outcome, raised,
      running, suspended>>

\* no request has been received yet
Idle == pc = "idle"

NoRequest ==
    [entry |-> "none", op |-> "none", token |-> "", message |-> <<>>,
     image |-> None, video |-> None, type |-> "video"]

NoFrame == [file |-> None]

Pending == [error |-> "pending", status |-> 0, detail |-> <<>>, body |-> None]

\* main.py: what the endpoint makes of the result of the vk_api function
\* (the except clause of the endpoint and config_error_handler; any other
\* exception leaves the endpoint and the server answers 500); a direct
\* caller of the vk_api function receives the result itself, status 0
Delivered(entry, result) ==
    IF result.exc = "none"
    THEN [error |-> "none", status |-> IF entry = "http" THEN 200 ELSE 0,
          detail |-> <<>>, body |-> Some(result.data)]
    ELSE IF result.exc = "VkApiError"
    THEN [error |-> "VkApiError", status |-> IF entry = "http" THEN 502 ELSE 0,
          detail |-> result.msg, body |-> None]
    ELSE IF result.exc = "ConfigError"
    THEN [error |-> "ConfigError", status |-> IF entry = "http" THEN 500 ELSE 0,
          detail |-> result.msg, body |-> None]
    ELSE IF entry = "http"
    THEN [error |-> result.exc, status |-> 500,
          detail |-> T_Internal_Server_Error, body |-> None]
    ELSE [error |-> result.exc, status |-> 0, detail |-> result.msg,
          body |-> None]

\* the record of an exception raised after the calls `cs`
Raised(result, cs, caught) ==
    [exc |-> result.exc, msg |-> result.msg, at |-> Len(cs), step |-> pc,
     caught |-> caught]

\* a variant with one client at module level, used by every request
AsyncClient_of_the_module(r) == 0

\* httpx.AsyncClient(timeout=...) in the `async with` of a vk_api
\* function: a new client for each call of the function, named here by
\* the request that made the call
AsyncClient(r) == r

\* the request issues `call` on its client and awaits its reply at `next`
Issue(call, next, locals) ==
    /\ calls' = Append(calls, call @@ [client |-> AsyncClient(running)])
    /\ pc' = next
    /\ frame' = locals
    /\ outcome' = Pending
    /\ UNCHANGED <<settings, running, suspended>>

\* the vk_api function ends with `result`: a value returned or an
\* exception that propagates to the endpoint
Finish(result) ==
    /\ calls' = calls
    /\ pc' = "done"
    /\ frame' = NoFrame
    /\ outcome' = Delivered(request'.entry, result)
    /\ raised' = IF result.exc = "none" THEN raised
                 ELSE Append(raised, Raised(result, calls, FALSE))
    /\ UNCHANGED <<settings, running, suspended>>

\* raise HTTPException(status_code=401, detail="Invalid token")
Reject ==
    /\ calls' = <<>>
    /\ pc' = "done"
    /\ frame' = NoFrame
    /\ outcome' = [error |-> "Unauthorized", status |-> 401,
                   detail |-> T_Invalid_token, body |-> None]
    /\ raised' = <<>>
    /\ UNCHANGED <<settings, running, suspended>>

\* a variant that lets every token in
authorized_any(token) == token = token

\* the token test of the endpoints
authorized(token) == token = settings.internal_token

ApiUrl == <<"https://api.vk.com", "method", "messages.send">>

\* a request that has not arrived yet, as `suspended` holds it
NotArrived ==
    [request |-> NoRequest, pc |-> "idle", frame |-> NoFrame, calls |-> <<>>,
     replies |-> <<>>, outcome |-> Pending, raised |-> <<>>]

Init ==
    /\ settings \in
         [internal_token : {"secret"}, vk_access_token : {"vk-token"},
          vk_peer_id : {"2000000001"}, vk_api_version : {"5.131"},
          vk_group_id : GroupIdSettings, vk_api_url : {ApiUrl},
          request_timeout : {30}]
    /\ request = NoRequest
    /\ pc = "idle"
    /\ frame = NoFrame
    /\ calls = <<>>
    /\ replies = <<>>
    /\ outcome = Pending
    /\ raised = <<>>
    /\ running = 1
    /\ suspended = NotArrived

(***************************************************************************)
(* vk_api.py: the four functions up to their first outbound call.          *)
(***************************************************************************)
send_message(message) ==
    /\ Issue(MethodCall(settings, "messages.send",
                        send_message_data(settings, message)),
             "send_message:messages.send", NoFrame)
    /\ raised' = <<>>

send_post(message, image_url) ==
    LET owner_id == get_group_owner_id(settings)
        data == [owner_id |-> owner_id.data, from_group |-> 1,
                 message |-> message]
    IN  IF owner_id.exc # "none" THEN Finish(owner_id)
        ELSE IF image_url # None
        THEN /\ Issue(DownloadCall(image_url[1]), "upload_wall_photo:download",
                      [file |-> None, data |-> data, image_url |-> image_url[1]])
             /\ raised' = <<>>
        ELSE /\ Issue(MethodCall(settings, "wall.post", data),
                      "send_post:wall.post", NoFrame)
             /\ raised' = <<>>

send_image_url(image_url) ==
    /\ Issue(DownloadCall(image_url), "send_image_url:download",
             [file |-> None, image_url |-> image_url])
    /\ raised' = <<>>

send_video_url(video_url) ==
    /\ Issue(DownloadCall(video_url), "send_video_url:download",
             [file |-> None, video_url |-> video_url])
    /\ raised' = <<>>

(***************************************************************************)
(* main.py: the endpoints.                                                 *)
(***************************************************************************)
main_send_message ==
    /\ Idle
    /\ \E token \in Tokens, message \in Messages :
         /\ request' = [NoRequest EXCEPT !.entry = "http",
                           !.op = "send_message", !.token = token,
                           !.message = message]
         /\ replies' = <<>>
         /\ IF ~authorized(token) THEN Reject ELSE send_message(message)

\* the endpoint passes the message only: the image of the payload is not
\* handed to send_post
main_send_post ==
    /\ Idle
    /\ \E token \in Tokens, message \in Messages,
          image \in {None} \cup {Some(u) : u \in ImageUrls} :
         /\ request' = [NoRequest EXCEPT !.entry = "http",
                           !.op = "send_post", !.token = token,
                           !.message = message, !.image = image]
         /\ replies' = <<>>
         /\ IF ~authorized(token) THEN Reject ELSE send_post(message, None)

main_send_image ==
    /\ Idle
    /\ \E token \in Tokens, image \in ImageUrls :
         /\ request' = [NoRequest EXCEPT !.entry = "http",
                           !.op = "send_image", !.token = token,
                           !.image = Some(image)]
         /\ replies' = <<>>
         /\ IF ~authorized(token) THEN Reject ELSE send_image_url(image)

\* the endpoint does not pass payload.type on
main_send_video ==
    /\ Idle
    /\ \E token \in Tokens, video \in VideoUrls, type \in {"video"} :
         /\ request' = [NoRequest EXCEPT !.entry = "http",
                           !.op = "send_video", !.token = token,
                           !.video = Some(video), !.type = type]
         /\ replies' = <<>>
         /\ IF ~authorized(token) THEN Reject ELSE send_video_url(video)

\* vk_api.send_post called with an image URL, as its signature allows
direct_send_post ==
    /\ Idle
    /\ \E message \in Messages, image \in ImageUrls :
         /\ request' = [NoRequest EXCEPT !.entry = "direct",
                           !.op = "send_post", !.token = "",
                           !.message = message, !.image = Some(image)]
         /\ replies' = <<>>
         /\ send_post(message, Some(image))

(***************************************************************************)
(* vk_api.py: the steps of the functions, one per awaited call.  A step    *)
(* takes the reply to the pending call and runs to the next outbound call  *)
(* or to the end of the function.                                          *)
(***************************************************************************)
\* an exception of a step that nothing catches below the endpoint
Propagate(result) ==
    /\ UNCHANGED request
    /\ Finish(result)

\* the step goes on with the next outbound call
Continue(call, next, locals) ==
    /\ Issue(call, next, locals)
    /\ raised' = raised
    /\ UNCHANGED request

\* the final call of a function: its result is returned as it is
Return(method, response) == Propagate(post_vk_method(method, response))

send_message_returns ==
    /\ pc = "send_message:messages.send"
    /\ \E response \in MethodReplies(SendResponses) :
         /\ replies' = Append(replies, response)
         /\ Return("messages.send", response)

send_post_returns ==
    /\ pc = "send_post:wall.post"
    /\ \E response \in MethodReplies(SendResponses) :
         /\ replies' = Append(replies, response)
         /\ Return("wall.post", response)

\* _upload_wall_photo ------------------------------------------------------
upload_wall_photo_download ==
    /\ pc = "upload_wall_photo:download"
    /\ \E response \in DownloadReplies :
         LET image == download_image(frame.image_url, response)
             group_id == get_group_id(settings)
         IN  /\ replies' = Append(replies, response)
             /\ IF image.exc # "none" THEN Propagate(image)
                ELSE IF group_id.exc # "none" THEN Propagate(group_id)
                ELSE Continue(MethodCall(settings, "photos.getWallUploadServer",
                                         [group_id |-> group_id.data]),
                              "upload_wall_photo:photos.getWallUploadServer",
                              [frame EXCEPT !.file = Some(image.data)])

upload_wall_photo_upload_server ==
    /\ pc = "upload_wall_photo:photos.getWallUploadServer"
    /\ \E response \in MethodReplies(UploadInfos) :
         LET upload_url == upload_url_of("photos.getWallUploadServer", response)
         IN  /\ replies' = Append(replies, response)
             /\ IF upload_url.exc # "none" THEN Propagate(upload_url)
                ELSE Continue(UploadCall(upload_url.data, "photo", frame.file[1]),
                              "upload_wall_photo:upload", frame)

upload_wall_photo_upload ==
    /\ pc = "upload_wall_photo:upload"
    /\ \E response \in UploadReplies(PhotoUploadPayloads) :
         LET upload_payload == photo_upload_payload(response)
         IN  /\ replies' = Append(replies, response)
             /\ IF upload_payload.exc # "none" THEN Propagate(upload_payload)
                ELSE Continue(MethodCall(settings, "photos.saveWallPhoto",
                                [group_id |-> get_group_id(settings).data,
                                 server |-> upload_payload.data["server"],
                                 photo |-> upload_payload.data["photo"],
                                 hash |-> upload_payload.data["hash"]]),
                              "upload_wall_photo:photos.saveWallPhoto", frame)

\* the attachment is returned to send_post, which issues wall.post
upload_wall_photo_save ==
    /\ pc = "upload_wall_photo:photos.saveWallPhoto"
    /\ \E response \in MethodReplies(PhotoSaveResponses) :
         LET attachment == saved_photo_attachment("photos.saveWallPhoto", response)
         IN  /\ replies' = Append(replies, response)
             /\ IF attachment.exc # "none" THEN Propagate(attachment)
                ELSE Continue(MethodCall(settings, "wall.post",
                                ("attachments" :> attachment.data) @@ frame.data),
                              "send_post:wall.post", NoFrame)

\* send_image_url ----------------------------------------------------------
send_image_url_download ==
    /\ pc = "send_image_url:download"
    /\ \E response \in DownloadReplies :
         LET image == download_image(frame.image_url, response)
         IN  /\ replies' = Append(replies, response)
             /\ IF image.exc # "none" THEN Propagate(image)
                ELSE Continue(MethodCall(settings, "photos.getMessagesUploadServer",
                                         [peer_id |-> settings.vk_peer_id]),
                              "send_image_url:photos.getMessagesUploadServer",
                              [frame EXCEPT !.file = Some(image.data)])

send_image_url_upload_server ==
    /\ pc = "send_image_url:photos.getMessagesUploadServer"
    /\ \E response \in MethodReplies(UploadInfos) :
         LET upload_url == upload_url_of("photos.getMessagesUploadServer", response)
         IN  /\ replies' = Append(replies, response)
             /\ IF upload_url.exc # "none" THEN Propagate(upload_url)
                ELSE Continue(UploadCall(upload_url.data, "photo", frame.file[1]),
                              "send_image_url:upload", frame)

send_image_url_upload ==
    /\ pc = "send_image_url:upload"
    /\ \E response \in UploadReplies(PhotoUploadPayloads) :
         LET upload_payload == photo_upload_payload(response)
         IN  /\ replies' = Append(replies, response)
             /\ IF upload_payload.exc # "none" THEN Propagate(upload_payload)
                ELSE Continue(MethodCall(settings, "photos.saveMessagesPhoto",
                                [server |-> upload_payload.data["server"],
                                 photo |-> upload_payload.data["photo"],
                                 hash |-> upload_payload.data["hash"]]),
                              "send_image_url:photos.saveMessagesPhoto", frame)

send_image_url_save ==
    /\ pc = "send_image_url:photos.saveMessagesPhoto"
    /\ \E response \in MethodReplies(PhotoSaveResponses) :
         LET attachment == saved_photo_attachment("photos.saveMessagesPhoto", response)
         IN  /\ replies' = Append(replies, response)
             /\ IF attachment.exc # "none" THEN Propagate(attachment)
                ELSE Continue(MethodCall(settings, "messages.send",
                                attachment_data(settings, attachment.data)),
                              "send_image_url:messages.send", NoFrame)

send_image_url_returns ==
    /\ pc = "send_image_url:messages.send"
    /\ \E response \in MethodReplies(SendResponses) :
         /\ replies' = Append(replies, response)
         /\ Return("messages.send", response)

\* _send_video_as_document and the except clause of send_video_url ---------
\* a variant that fetches the video again before anything else
send_video_as_document_fetching_again(file) ==
    Issue(DownloadCall(request.video[1]), "send_video_url:download",
          [file |-> None, video_url |-> request.video[1]])

\* the first outbound call of _send_video_as_document
send_video_as_document(file) ==
    Issue(MethodCall(settings, "docs.getMessagesUploadServer",
                     [peer_id |-> settings.vk_peer_id, type |-> "doc"]),
          "send_video_as_document:docs.getMessagesUploadServer",
          [file |-> file])

\* a variant whose except clause drops every VkApiError
send_video_via_save_raises_any(result) ==
    IF result.exc = "VkApiError"
    THEN /\ send_video_as_document(frame.file)
         /\ raised' = Append(raised, Raised(result, calls, TRUE))
         /\ UNCHANGED request
    ELSE Propagate(result)

\* send_video_url, the except clause around _send_video_via_save: a
\* VkApiError that mentions "group auth" is dropped and the video is sent
\* as a document, any other is raised again
send_video_via_save_raises(result) ==
    IF result.exc = "VkApiError" /\ group_auth_in(result.msg)
    THEN /\ send_video_as_document(frame.file)
         /\ raised' = Append(raised, Raised(result, calls, TRUE))
         /\ UNCHANGED request
    ELSE Propagate(result)

\* a variant that calls _send_video_as_document inside the try
send_video_as_document_raises_in_try(result) ==
    send_video_via_save_raises(result)

\* an exception of _send_video_as_document: the call is outside the try
send_video_as_document_raises(result) == Propagate(result)

\* send_video_url and _send_video_via_save ---------------------------------
send_video_url_download ==
    /\ pc = "send_video_url:download"
    /\ \E response \in DownloadReplies :
         LET video == download_video(frame.video_url, response)
         IN  /\ replies' = Append(replies, response)
             /\ IF video.exc # "none" THEN Propagate(video)
                ELSE Continue(MethodCall(settings, "video.save",
                                [name |-> video.data.filename, is_private |-> 1]),
                              "send_video_via_save:video.save",
                              [file |-> Some(video.data)])

send_video_via_save_video_save ==
    /\ pc = "send_video_via_save:video.save"
    /\ \E response \in MethodReplies(VideoSaveResponses) :
         LET save_response == video_save_response(response)
         IN  /\ replies' = Append(replies, response)
             /\ IF save_response.exc # "none"
                THEN send_video_via_save_raises(save_response)
                ELSE Continue(UploadCall(save_response.data["upload_url"],
                                         "video_file", frame.file[1]),
                              "send_video_via_save:upload",
                              [file |-> frame.file,
                               save_response |-> save_response.data])

send_video_via_save_upload ==
    /\ pc = "send_video_via_save:upload"
    /\ \E response \in VideoUploadReplies :
         LET attachment == video_attachment(frame.save_response, response)
         IN  /\ replies' = Append(replies, response)
             /\ IF attachment.exc # "none"
                THEN send_video_via_save_raises(attachment)
                ELSE Continue(MethodCall(settings, "messages.send",
                                attachment_data(settings, attachment.data)),
                              "send_video_via_save:messages.send",
                              [file |-> frame.file])

send_video_via_save_returns ==
    /\ pc = "send_video_via_save:messages.send"
    /\ \E response \in MethodReplies(SendResponses) :
         LET result == post_vk_method("messages.send", response)
         IN  /\ replies' = Append(replies, response)
             /\ IF result.exc # "none" THEN send_video_via_save_raises(result)
                ELSE Propagate(result)

send_video_as_document_upload_server ==
    /\ pc = "send_video_as_document:docs.getMessagesUploadServer"
    /\ \E response \in MethodReplies(UploadInfos) :
         LET upload_url == upload_url_of("docs.getMessagesUploadServer", response)
         IN  /\ replies' = Append(replies, response)
             /\ IF upload_url.exc # "none"
                THEN send_video_as_document_raises(upload_url)
                ELSE Continue(UploadCall(upload_url.data, "file", frame.file[1]),
                              "send_video_as_document:upload", frame)

send_video_as_document_upload ==
    /\ pc = "send_video_as_document:upload"
    /\ \E response \in UploadReplies(DocUploadPayloads) :
         LET file_token == doc_file_token(response)
         IN  /\ replies' = Append(replies, response)
             /\ IF file_token.exc # "none"
                THEN send_video_as_document_raises(file_token)
                ELSE Continue(MethodCall(settings, "docs.save",
                                [file |-> file_token.data,
                                 title |-> frame.file[1].filename]),
                              "send_video_as_document:docs.save", frame)

\* docs.save answered with a dict, a list, a number or null as `response`
send_video_as_document_save ==
    /\ pc = "send_video_as_document:docs.save"
    /\ \E shape \in {"dict", "list", "int", "NoneType"} :
         \E response \in MethodReplies(DocSaveResponses(shape)) :
           LET attachment == doc_attachment(shape, response)
           IN  /\ replies' = Append(replies, Typed(response, shape))
               /\ IF attachment.exc # "none"
                  THEN send_video_as_document_raises(attachment)
                  ELSE Continue(MethodCall(settings, "messages.send",
                                  attachment_data(settings, attachment.data)),
                                "send_video_as_document:messages.send", NoFrame)

send_video_as_document_returns ==
    /\ pc = "send_video_as_document:messages.send"
    /\ \E response \in MethodReplies(SendResponses) :
         LET result == post_vk_method("messages.send", response)
         IN  /\ replies' = Append(replies, response)
             /\ IF result.exc # "none" THEN send_video_as_document_raises(result)
                ELSE Propagate(result)

Next ==
    \/ main_send_message
    \/ main_send_post
    \/ main_send_image
    \/ main_send_video
    \/ direct_send_post
    \/ send_message_returns
    \/ send_post_returns
    \/ upload_wall_photo_download
    \/ upload_wall_photo_upload_server
    \/ upload_wall_photo_upload
    \/ upload_wall_photo_save
    \/ send_image_url_download
    \/ send_image_url_upload_server
    \/ send_image_url_upload
    \/ send_image_url_save
    \/ send_image_url_returns
    \/ send_video_url_download
    \/ send_video_via_save_video_save
    \/ send_video_via_save_upload
    \/ send_video_via_save_returns
    \/ send_video_as_document_upload_server
    \/ send_video_as_document_upload
    \/ send_video_as_document_save
    \/ send_video_as_document_returns

Spec == Init /\ [][Next]_vars

(***************************************************************************)
(* Two requests in flight.  The endpoints are coroutines of one event      *)
(* loop: a request runs from one await to the next, and while it awaits    *)
(* the loop runs the other.  The variables of the request describe the     *)
(* request that runs; `suspended` keeps the other as it was left.          *)
(***************************************************************************)
\* the request that runs, as `suspended` will hold it
Coroutine ==
    [request |-> request, pc |-> pc, frame |-> frame, calls |-> calls,
     replies |-> replies, outcome |-> outcome, raised |-> raised]

\* the event loop turns to the other request
Switch ==
    /\ running' = 3 - running
    /\ suspended' = Coroutine
    /\ request' = suspended.request
    /\ pc' = suspended.pc
    /\ frame' = suspended.frame
    /\ calls' = suspended.calls
    /\ replies' = suspended.replies
    /\ outcome' = suspended.outcome
    /\ raised' = suspended.raised
    /\ UNCHANGED settings

\* the `response` VK gives to a well-formed call of `method`
UsualResponse(method) ==
    CASE method \in {"messages.send", "wall.post"} -> MaxId
      [] method \in {"photos.getWallUploadServer",
                     "photos.getMessagesUploadServer",
                     "docs.getMessagesUploadServer"} ->
             [upload_url |-> "https://pu.vk.com/c1/upload"]
      [] method \in {"photos.saveWallPhoto", "photos.saveMessagesPhoto"} ->
             <<[owner_id |-> -MaxId, id |-> MaxId]>>
      [] method = "video.save" ->
             [upload_url |-> "https://pu.vk.com/c1/upload",
              owner_id |-> -MaxId, video_id |-> MaxId]
      [] method = "docs.save" -> [doc |-> [owner_id |-> MaxId, id |-> MaxId]]

\* the replies the two requests are followed through: a transport that
\* fails, the reply of a remote end that works, and the group-auth error
\* of video.save
Usual(call, reply) ==
    \/ reply.transport = "RequestError"
    \/ /\ reply.transport = "ok"
       /\ reply.status = 200
       /\ CASE call.kind = "download" ->
                 reply.headers = Server /\ reply.text = T_abc
            [] call.kind = "upload" ->
                 /\ reply.json # None
                 /\ "error" \notin DOMAIN reply.json[1]
                 /\ call.field = "photo" => "hash" \in DOMAIN reply.json[1]
                 /\ reply.json[1] # EmptyList
                 /\ call.field = "file" => reply.json[1]["file"] # ""
            [] call.kind = "method" ->
                 /\ reply.json # None
                 /\ IF "response" \in DOMAIN reply.json[1]
                    THEN /\ call.method = "docs.save"
                              => reply.response_type = "dict"
                         /\ reply.json[1]["response"] = UsualResponse(call.method)
                    ELSE /\ call.method = "video.save"
                         /\ reply.json[1] =
                              [error |-> [error_msg |-> T_Group_authorization_failed]]

\* the reply the running request took last is a usual one
LastReplyIsUsual ==
    replies = <<>> \/ Usual(calls[Len(replies)], replies[Len(replies)])

\* the step A of the running request, on a usual reply
OnUsualReply(A) == A /\ LastReplyIsUsual'

\* the group id of the settings of the two requests
InitConcurrent == Init /\ settings.vk_group_id = Some(T_100)

NextConcurrent ==
    \/ Switch
    \/ OnUsualReply(main_send_message)
    \/ OnUsualReply(main_send_post)
    \/ OnUsualReply(main_send_image)
    \/ OnUsualReply(main_send_video)
    \/ OnUsualReply(direct_send_post)
    \/ OnUsualReply(send_message_returns)
    \/ OnUsualReply(send_post_returns)
    \/ OnUsualReply(upload_wall_photo_download)
    \/ OnUsualReply(upload_wall_photo_upload_server)
    \/ OnUsualReply(upload_wall_photo_upload)
    \/ OnUsualReply(upload_wall_photo_save)
    \/ OnUsualReply(send_image_url_download)
    \/ OnUsualReply(send_image_url_upload_server)
    \/ OnUsualReply(send_image_url_upload)
    \/ OnUsualReply(send_image_url_save)
    \/ OnUsualReply(send_image_url_returns)
    \/ OnUsualReply(send_video_url_download)
    \/ OnUsualReply(send_video_via_save_video_save)
    \/ OnUsualReply(send_video_via_save_upload)
    \/ OnUsualReply(send_video_via_save_returns)
    \/ OnUsualReply(send_video_as_document_upload_server)
    \/ OnUsualReply(send_video_as_document_upload)
    \/ OnUsualReply(send_video_as_document_save)
    \/ OnUsualReply(send_video_as_document_returns)

SpecConcurrent == InitConcurrent /\ [][NextConcurrent]_vars

(***************************************************************************)
(* Vocabulary of the properties.                                           *)
(***************************************************************************)
Done == pc = "done"

IsMethod(call, method) == call.kind = "method" /\ call.method = method

IsUpload(call, field) == call.kind = "upload" /\ call.field = field

\* the positions of `calls` that call `method`
CallsOf(method) == {i \in 1..Len(calls) : IsMethod(calls[i], method)}

\* the steps of the native video flow, inside the try of send_video_url
VideoSteps ==
    {"send_video_via_save:video.save", "send_video_via_save:upload",
     "send_video_via_save:messages.send"}

\* the steps of the document flow
DocumentSteps ==
    {"send_video_as_document:docs.getMessagesUploadServer",
     "send_video_as_document:upload", "send_video_as_document:docs.save",
     "send_video_as_document:messages.send"}

\* msg contains "group auth" in any letter case, character by character
MentionsGroupAuth(msg) ==
    \E i \in 1..Len(msg) :
        /\ i + 9 <= Len(msg)
        /\ \A j \in 1..10 : LowerChar(msg[i + j - 1]) = T_group_auth[j]

\* raised[k] is a failure of the native video flow that mentions group auth
IsGroupAuthFailure(k) ==
    /\ raised[k].step \in VideoSteps
    /\ raised[k].exc = "VkApiError"
    /\ MentionsGroupAuth(raised[k].msg)

\* the calls of the document flow, in order
IsDocumentFlow(cs) ==
    /\ Len(cs) <= 4
    /\ Len(cs) >= 1 => IsMethod(cs[1], "docs.getMessagesUploadServer")
    /\ Len(cs) >= 2 => IsUpload(cs[2], "file")
    /\ Len(cs) >= 3 => IsMethod(cs[3], "docs.save")
    /\ Len(cs) >= 4 => /\ IsMethod(cs[4], "messages.send")
                       /\ StartsWith(cs[4].data["attachment"], T_doc)
                       /\ ~StartsWith(cs[4].data["attachment"], T_video)

\* C1: in sendVideo, a failure of the native video flow whose message
\* contains "group auth" in any letter case is swallowed and the request
\* goes on through the document orchestrator: the calls after the failure
\* are docs.getMessagesUploadServer, the upload under field `file`,
\* docs.save and a messages.send with a `doc` attachment, and a result the
\* caller receives comes from that messages.send.
C1_GroupAuthFallsBackToDocument ==
    \A k \in 1..Len(raised) :
        IsGroupAuthFailure(k) =>
            /\ raised[k].caught
            /\ Len(calls) > raised[k].at
            /\ IsDocumentFlow(SubSeq(calls, raised[k].at + 1, Len(calls)))
            /\ outcome.error = "none" =>
                 /\ Len(calls) = raised[k].at + 4
                 /\ outcome.body = Some(replies[Len(replies)].json[1])

\* the scenario of C1: video.save fails with "Group authorization failed"
\* and the request ends well through the document flow
C1_Witness ==
    /\ Done
    /\ outcome.error = "none"
    /\ Len(raised) = 1
    /\ raised[1].msg = MethodName("video.save") \o envelope_text.colon
                         \o T_Group_authorization_failed
    /\ IsMethod(calls[Len(calls)], "messages.send")
    /\ StartsWith(calls[Len(calls)].data["attachment"], T_doc)

\* the reply to a call is a failure by itself: the transport failed, the
\* status of a download, a method call or a video upload is an error
\* status, or a method call got no JSON or an `error` envelope
ReplyFails(call, reply) ==
    \/ reply.transport = "RequestError"
    \/ /\ call.kind \in {"download", "method"}
       /\ reply.status >= 400
    \/ /\ IsUpload(call, "video_file")
       /\ reply.status >= 400
    \/ /\ call.kind = "method"
       /\ \/ reply.json = None
          \/ "error" \in DOMAIN reply.json[1]

\* raised[k] ended the request: nothing was called after it and the caller
\* received it (with its text, when the endpoint handles its class)
EndedRequest(k) ==
    /\ k = Len(raised)
    /\ ~raised[k].caught
    /\ Done
    /\ Len(calls) = raised[k].at
    /\ outcome.error = raised[k].exc
    /\ raised[k].exc \in {"VkApiError", "ConfigError"}
         => outcome.detail = raised[k].msg
    /\ outcome.body = None

C3_NoStepIsRepeated ==
    /\ Cardinality({i \in 1..Len(calls) : calls[i].kind = "download"}) <= 1
    /\ \A i, j \in 1..Len(calls) :
         /\ i < j
         /\ calls[i].kind = "method"
         /\ calls[j].kind = "method"
         /\ calls[i].method = calls[j].method
         => /\ calls[i].method = "messages.send"
            /\ StartsWith(calls[i].data["attachment"], T_video)
            /\ StartsWith(calls[j].data["attachment"], T_doc)
    /\ \A i, j \in 1..Len(calls) :
         /\ i < j
         /\ calls[i].kind = "upload"
         /\ calls[j].kind = "upload"
         => calls[i].field = "video_file" /\ calls[j].field = "file"
    /\ Cardinality({k \in 1..Len(raised) : raised[k].caught}) <= 1
    /\ Cardinality(CallsOf("docs.getMessagesUploadServer")) <= 1
    /\ \A i \in CallsOf("docs.getMessagesUploadServer") :
         \A j \in (i + 1)..Len(calls) :
            ~IsMethod(calls[j], "video.save") /\ ~IsUpload(calls[j], "video_file")
    /\ \A k \in 1..Len(raised) :
         raised[k].step \in DocumentSteps => EndedRequest(k)

\* the fallback was taken and the document flow failed with a group-auth
\* error, which the caller received
C3_Witness ==
    /\ Done
    /\ Len(raised) = 2
    /\ raised[1].caught
    /\ raised[2].step \in DocumentSteps
    /\ MentionsGroupAuth(raised[2].msg)
    /\ outcome.error = "VkApiError"
    /\ outcome.detail = raised[2].msg

\* the request fetches an image (sendImage, sendPost) or a video (sendVideo)
FetchesImage == Len(calls) >= 1 /\ calls[1].kind = "download" /\ request.op # "send_video"

FetchesVideo == Len(calls) >= 1 /\ calls[1].kind = "download" /\ request.op = "send_video"

\* the reply to the GET declares a content type, which is not empty
DeclaresType(reply) ==
    /\ reply.transport = "ok"
    /\ "Content-Type" \in DOMAIN reply.headers
    /\ reply.headers["Content-Type"] # <<>>

\* type starts with prefix, letter case ignored
HasPrefix(type, prefix) ==
    /\ Len(type) >= Len(prefix)
    /\ \A i \in 1..Len(prefix) : LowerChar(type[i]) = prefix[i]

\* the declared content type is one the fetch of the request expects
ExpectedType(type) ==
    IF request.op = "send_video"
    THEN HasPrefix(type, T_video_slash) \/ HasPrefix(type, T_application_octet_stream)
    ELSE HasPrefix(type, T_image_slash)

\* the fetch failed and nothing was called after the GET
FetchFailedAlone ==
    /\ Done
    /\ Len(calls) = 1
    /\ outcome.error = "VkApiError"
    /\ outcome.body = None

\* C4 as stated: a fetched resource whose content type does not start with
\* the expected prefix, also one that declares no content type at all,
\* makes the fetch fail, with no upload-server, upload or save call.
C4_Original ==
    /\ Len(replies) >= 1
    /\ calls[1].kind = "download"
    /\ replies[1].transport = "ok"
    /\ \/ ~DeclaresType(replies[1])
       \/ ~ExpectedType(replies[1].headers["Content-Type"])
    => FetchFailedAlone

\* C4, amended: a fetched resource that declares a content type which does
\* not start with the expected prefix (letter case ignored) makes the fetch
\* fail, with no upload-server, upload or save call; a reply that declares
\* no content type is not rejected for its type.
C4_DeclaredMismatchFailsFetch ==
    /\ /\ Len(replies) >= 1
       /\ calls[1].kind = "download"
       /\ DeclaresType(replies[1])
       /\ ~ExpectedType(replies[1].headers["Content-Type"])
       => FetchFailedAlone
    /\ /\ Len(replies) >= 1
       /\ calls[1].kind = "download"
       /\ replies[1].transport = "ok"
       /\ replies[1].status < 400
       /\ ~DeclaresType(replies[1])
       /\ replies[1].text # <<>>
       => Len(calls) >= 2

\* an image request fetched a resource declared text/html and failed
C4_Witness ==
    /\ Done
    /\ FetchesImage
    /\ replies[1].status = 200
    /\ DeclaresType(replies[1])
    /\ replies[1].headers["Content-Type"] = T_text_html
    /\ replies[1].text # <<>>
    /\ outcome.error = "VkApiError"

\* the calls of the wall-photo orchestrator before wall.post
IsWallPhotoFlow(cs) ==
    /\ Len(cs) = 4
    /\ cs[1].kind = "download"
    /\ IsMethod(cs[2], "photos.getWallUploadServer")
    /\ IsUpload(cs[3], "photo")
    /\ IsMethod(cs[4], "photos.saveWallPhoto")

\* C5: a send-post request that carries an image URL has the image fetched
\* and run through the wall-photo orchestrator before wall.post, and its
\* wall.post carries `attachments`; wall.post goes without `attachments`
\* only when the request has no image URL.
C5_PostCarriesTheImage ==
    \A i \in CallsOf("wall.post") :
        IF request.image # None
        THEN /\ IsWallPhotoFlow(SubSeq(calls, 1, i - 1))
             /\ "attachments" \in DOMAIN calls[i].data
             /\ StartsWith(calls[i].data["attachments"], T_photo)
        ELSE "attachments" \notin DOMAIN calls[i].data

\* the reply to a method call is a decoded envelope with neither `error`
\* nor `response`
IsBareEnvelope(reply) ==
    /\ reply.transport = "ok"
    /\ reply.status < 400
    /\ reply.json # None
    /\ "error" \notin DOMAIN reply.json[1]
    /\ "response" \notin DOMAIN reply.json[1]

\* C6: a method call of any operation, the final messages.send and
\* wall.post included, that gets an envelope with neither `error` nor
\* `response` makes the operation fail with a remote error; such an
\* envelope never reaches the caller as a success.
C6_BareEnvelopeIsAnError ==
    \A i \in 1..Len(replies) :
        calls[i].kind = "method" /\ IsBareEnvelope(replies[i]) =>
            /\ Done
            /\ i = Len(calls)
            /\ outcome.error = "VkApiError"
            /\ outcome.body = None

\* the case of the configured group id, when it is one of GroupIdCases
GroupIdCase == CHOOSE c \in GroupIdCases : settings.vk_group_id = Some(c.text)

IsIntegerGroupId == settings.vk_group_id # None /\ GroupIdCase.integer

\* the request got past the token test
Admitted ==
    /\ ~Idle
    /\ request.entry = "http" => request.token = settings.internal_token

\* C7: sendPost with a message and no image makes exactly one outbound
\* call, wall.post, with from_group 1 and owner_id the negated absolute
\* value of the configured group id, whatever its sign: never positive.
C7_PostOwnerIsNegatedGroupId ==
    /\ request.op = "send_post"
    /\ request.image = None
    /\ Admitted
    /\ IsIntegerGroupId
    => /\ Len(calls) = 1
       /\ IsMethod(calls[1], "wall.post")
       /\ calls[1].data["from_group"] = 1
       /\ calls[1].data["message"] = request.message
       /\ calls[1].data["owner_id"] =
            (IF GroupIdCase.value < 0 THEN GroupIdCase.value ELSE -GroupIdCase.value)
       /\ calls[1].data["owner_id"] <= 0
       /\ "attachments" \notin DOMAIN calls[1].data

\* the scenario of C7: group id "-100" posts as owner -100
C7_Witness ==
    /\ Done
    /\ request.op = "send_post"
    /\ request.image = None
    /\ settings.vk_group_id = Some(T_minus_100)
    /\ outcome.error = "none"
    /\ Len(calls) = 1
    /\ calls[1].data["owner_id"] = -100

\* C8: sendPost with a group id that is absent, empty or not an integer
\* fails with the configuration error (HTTP 500), never with the remote
\* error (HTTP 502), with or without an image URL, before any outbound call.
C8_BadGroupIdIsAConfigError ==
    /\ request.op = "send_post"
    /\ Admitted
    /\ ~IsIntegerGroupId
    => /\ Done
       /\ calls = <<>>
       /\ outcome.error = "ConfigError"
       /\ request.entry = "http" => outcome.status = 500

\* a post with an image URL and the group id "abc" ended with HTTP 500
C8_Witness ==
    /\ Done
    /\ request.op = "send_post"
    /\ request.entry = "http"
    /\ request.image # None
    /\ settings.vk_group_id = Some(T_abc)
    /\ outcome.status = 500
    /\ outcome.detail = group_id_text.not_integer

\* C9: a request on any of the four endpoints whose token differs from the
\* configured internal token is rejected with 401 and issues no outbound
\* call.
C9_WrongTokenCallsNothing ==
    /\ request.entry = "http"
    /\ request.token # settings.internal_token
    => /\ Done
       /\ calls = <<>>
       /\ replies = <<>>
       /\ outcome.error = "Unauthorized"
       /\ outcome.status = 401

\* a send-video request with a wrong token was rejected
C9_Witness ==
    /\ Done
    /\ request.op = "send_video"
    /\ request.token = "wrong"
    /\ outcome.status = 401
    /\ calls = <<>>

\* C10: a send-text request makes exactly one remote call, messages.send,
\* whose parameters hold the message text as the caller gave it and the
\* configured peer id.
C10_TextIsSentUnmodified ==
    /\ request.op = "send_message"
    /\ Admitted
    => /\ Len(calls) = 1
       /\ IsMethod(calls[1], "messages.send")
       /\ calls[1].data["message"] = request.message
       /\ calls[1].data["peer_id"] = settings.vk_peer_id
       /\ "attachment" \notin DOMAIN calls[1].data

\* a text with outer and inner blanks went out as it came in
C10_Witness ==
    /\ Done
    /\ request.op = "send_message"
    /\ outcome.error = "none"
    /\ request.message = T__Hi__there_
    /\ calls[1].data["message"] = T__Hi__there_

\* the fetch of the request was refused for what the URL of the caller
\* points to: a declared content type of the wrong kind, or an empty body
FetchRefusedForInput ==
    /\ Done
    /\ Len(calls) = 1
    /\ calls[1].kind = "download"
    /\ replies[1].transport = "ok"
    /\ replies[1].status < 400
    /\ \/ /\ DeclaresType(replies[1])
          /\ ~ExpectedType(replies[1].headers["Content-Type"])
       \/ replies[1].text = <<>>

\* what the caller of the request receives when a VK method call cannot
\* reach VK: the remote error
RemoteFailure ==
    Delivered(request.entry, post_vk_method("messages.send", RequestError))

\* C11: a fetch refused for the caller's input (content type of the wrong
\* kind, or empty body) reaches the caller as an error kind other than the
\* one of a failed VK call, and over HTTP with another status.
C11_InputErrorIsNotARemoteError ==
    FetchRefusedForInput =>
        /\ outcome.error # "none"
        /\ outcome.error # RemoteFailure.error
        /\ request.entry = "http" => outcome.status # RemoteFailure.status

\* an exception raised on the reply to calls[i]
RaisedOn(i) == {k \in 1..Len(raised) : raised[k].at = i}

\* the text "HTTP <status>" for the error statuses of the replies
HttpStatusText(status) ==
    CASE status = 400 -> <<"H", "T", "T", "P", " ", "4", "0", "0">>
      [] status = 403 -> <<"H", "T", "T", "P", " ", "4", "0", "3">>
      [] status = 500 -> <<"H", "T", "T", "P", " ", "5", "0", "0">>

\* the message a failed method call must have, by the way it failed
RemoteErrorText(call, reply, msg) ==
    IF reply.transport = "RequestError"
    THEN msg = post_vk_method_text.unreachable
    ELSE IF reply.status >= 400
    THEN /\ StartsWith(msg, post_vk_method_text.http_error)
         /\ Contains(msg, HttpStatusText(reply.status))
    ELSE IF reply.json = None
    THEN StartsWith(msg, post_vk_method_text.invalid)
    ELSE StartsWith(msg, MethodName(call.method) \o <<":", " ">>)

\* C12: a method call whose transport fails, whose reply has a status of
\* 400 or more (whatever its body: the message names the status, "HTTP
\* 500" for a 500), whose body is not JSON, or whose JSON has an `error`
\* object (message prefixed with the method name) raises the remote error;
\* its payload is not returned, and a call is made after it only by the
\* fallback of sendVideo.
C12_FailedCallRaisesRemoteError ==
    \A i \in 1..Len(replies) :
        calls[i].kind = "method" /\ ReplyFails(calls[i], replies[i]) =>
            /\ RaisedOn(i) # {}
            /\ \A k \in RaisedOn(i) :
                 /\ raised[k].exc = "VkApiError"
                 /\ RemoteErrorText(calls[i], replies[i], raised[k].msg)
                 /\ raised[k].caught \/ EndedRequest(k)
                 /\ Len(calls) > i => raised[k].caught
            /\ outcome.body # None => i < Len(replies)

\* a docs.save answered with HTTP 500 and an HTML body ended the request
\* with a 502 whose detail names the status
C12_Witness ==
    /\ Done
    /\ Len(calls) >= 1
    /\ IsMethod(calls[Len(calls)], "docs.save")
    /\ replies[Len(replies)].status = 500
    /\ replies[Len(replies)].json = None
    /\ outcome.status = 502
    /\ Contains(outcome.detail, <<"H", "T", "T", "P", " ", "5", "0", "0">>)

\* the clients the calls `cs` were issued on
ClientsOf(cs) == {cs[i].client : i \in 1..Len(cs)}

\* the calls `cs` without the client each was issued on
WithoutClient(cs) ==
    [i \in 1..Len(cs) |->
        [k \in (DOMAIN cs[i]) \ {"client"} |-> cs[i][k]]]

\* no client carries calls of both requests
ClientsAreNotShared == ClientsOf(calls) \cap ClientsOf(suspended.calls) = {}

\* two requests with the same payload that got the same replies made the
\* same calls and stand at the same point with the same outcome
SameInputsSameCourse ==
    request = suspended.request /\ replies = suspended.replies =>
        /\ WithoutClient(calls) = WithoutClient(suspended.calls)
        /\ pc = suspended.pc
        /\ frame = suspended.frame
        /\ outcome = suspended.outcome
        /\ raised = suspended.raised

\* a step changes the settings never and the other request only by
\* leaving the running one in its place
StepLeavesTheOtherAlone ==
    /\ settings' = settings
    /\ running' = running => suspended' = suspended
    /\ running' # running => suspended' = Coroutine /\ Coroutine' = suspended

SaveMethods ==
    {"photos.saveWallPhoto", "photos.saveMessagesPhoto", "video.save",
     "docs.save"}

IsSave(call) == call.kind = "method" /\ call.method \in SaveMethods

\* a messages.send or wall.post that carries an attachment
CarriesAttachment(call) ==
    /\ call.kind = "method"
    /\ \/ call.method = "messages.send" /\ "attachment" \in DOMAIN call.data
       \/ call.method = "wall.post" /\ "attachments" \in DOMAIN call.data

AttachmentOf(call) ==
    IF call.method = "wall.post" THEN call.data["attachments"]
    ELSE call.data["attachment"]

\* the reply is an envelope with a `response` and no `error`
HasResponse(reply) ==
    /\ reply.transport = "ok"
    /\ reply.status < 400
    /\ reply.json # None
    /\ "error" \notin DOMAIN reply.json[1]
    /\ "response" \in DOMAIN reply.json[1]

\* the record of identifiers in the reply to the save call calls[i]: the
\* first item of a photo save, the response of video.save, the doc of
\* docs.save; none when the response holds no such record
SavedRecords(i) ==
    LET r == replies[i].json[1]["response"]
    IN  CASE calls[i].method \in {"photos.saveWallPhoto",
                                  "photos.saveMessagesPhoto"} ->
                 IF r = <<>> THEN {} ELSE {r[1]}
          [] calls[i].method = "video.save" -> {r}
          [] calls[i].method = "docs.save" ->
                 IF replies[i].response_type = "dict"
                 THEN IF "doc" \in DOMAIN r THEN {r["doc"]} ELSE {}
                 ELSE IF replies[i].response_type = "list" /\ r # <<>>
                 THEN {r[1]}
                 ELSE {}

\* the keys that hold the item id in the record of a save method
ItemKeys(method) ==
    CASE method = "video.save" -> {"video_id", "vid"}
      [] method = "docs.save" -> {"id", "doc_id"}
      [] OTHER -> {"id"}

\* the item ids present in the record
ItemIds(method, rec) == {rec[k] : k \in ItemKeys(method) \cap DOMAIN rec}

AttachmentPrefix(method) ==
    CASE method = "video.save" -> <<"v", "i", "d", "e", "o">>
      [] method = "docs.save" -> <<"d", "o", "c">>
      [] OTHER -> <<"p", "h", "o", "t", "o">>

\* the save call the attachment of calls[j] comes from
SaveBefore(j) ==
    {i \in 1..(j - 1) :
        IsSave(calls[i]) /\ \A h \in (i + 1)..(j - 1) : ~IsSave(calls[h])}

\* the reply to the save call calls[i] lacks the owner id or the item id
LacksAnId(i) ==
    \A rec \in SavedRecords(i) :
        "owner_id" \notin DOMAIN rec \/ ItemIds(calls[i].method, rec) = {}

\* C14: a messages.send or wall.post carries an attachment only when the
\* reply to the save call before it holds both the owner id and an item
\* id, and the attachment names these two; a save reply that lacks either
\* is followed by no call with an attachment and the request ends with an
\* error (for a photo or a document at once, for a video once the upload
\* has been answered).
C14_AttachmentNeedsBothIds ==
    /\ \A j \in 1..Len(calls) :
         CarriesAttachment(calls[j]) =>
            \E i \in SaveBefore(j) :
               /\ HasResponse(replies[i])
               /\ \E rec \in SavedRecords(i) :
                    /\ "owner_id" \in DOMAIN rec
                    /\ \E item \in ItemIds(calls[i].method, rec) :
                         StartsWith(AttachmentOf(calls[j]),
                                    AttachmentPrefix(calls[i].method)
                                    \o Str(rec["owner_id"]) \o <<"_">>
                                    \o Str(item))
    /\ \A i \in 1..Len(replies) :
         IsSave(calls[i]) /\ HasResponse(replies[i]) /\ LacksAnId(i) =>
            /\ \A j \in (i + 1)..Len(calls) : ~CarriesAttachment(calls[j])
            /\ Done => outcome.error # "none" /\ outcome.body = None
            /\ calls[i].method # "video.save" => Done /\ Len(calls) = i
            /\ Len(replies) > i => Done

\* video.save gave no owner id, the upload went well, and the request
\* ended with the remote error instead of a messages.send
C14_Witness ==
    /\ Done
    /\ Len(calls) = 3
    /\ IsMethod(calls[2], "video.save")
    /\ HasResponse(replies[2])
    /\ "owner_id" \notin DOMAIN replies[2].json[1]["response"]
    /\ replies[3].transport = "ok"
    /\ replies[3].status = 200
    /\ outcome.error = "VkApiError"
    /\ outcome.detail = video_text.invalid_video

\* the methods whose `response` must hold the URL the file is posted to
UploadUrlMethods ==
    {"photos.getWallUploadServer", "photos.getMessagesUploadServer",
     "docs.getMessagesUploadServer", "video.save"}

\* the keys the step after calls[i] needs from the reply to it, and the
\* JSON value they are looked up in
NeededKeys(call) ==
    IF call.kind = "method" /\ call.method \in UploadUrlMethods
    THEN {"upload_url"}
    ELSE IF IsUpload(call, "photo") THEN {"server", "photo", "hash"}
    ELSE IF IsUpload(call, "file") THEN {"file"}
    ELSE {}

\* the JSON value of the reply the next step reads its keys from
KeyedValue(call, reply) ==
    IF call.kind = "method" THEN reply.json[1]["response"] ELSE reply.json[1]

\* the reply to `call` is one whose keys the next step reads
IsKeyed(call, reply) ==
    /\ NeededKeys(call) # {}
    /\ IF call.kind = "method" THEN HasResponse(reply)
       ELSE reply.transport = "ok" /\ reply.json # None

\* the reply holds every key the next step needs, none of them empty
HoldsNeededKeys(call, reply) ==
    /\ IsKeyed(call, reply)
    /\ NeededKeys(call) \subseteq DOMAIN KeyedValue(call, reply)
    /\ \A k \in NeededKeys(call) \cap {"upload_url", "file"} :
         KeyedValue(call, reply)[k] # ""

\* C15: the upload POST goes out only after a reply that holds
\* `upload_url`, the photo save call only after an upload reply that holds
\* `server`, `photo` and `hash`, and docs.save only after an upload reply
\* that holds `file`; a reply that lacks a key the next step needs ends
\* the request with the remote error (HTTP 502) and no further call.
C15_MissingKeyIsARemoteError ==
    /\ \A j \in 2..Len(calls) :
         \/ calls[j].kind = "upload"
         \/ IsMethod(calls[j], "photos.saveWallPhoto")
         \/ IsMethod(calls[j], "photos.saveMessagesPhoto")
         \/ IsMethod(calls[j], "docs.save")
         => HoldsNeededKeys(calls[j - 1], replies[j - 1])
    /\ \A i \in 1..Len(replies) :
         IsKeyed(calls[i], replies[i]) /\ ~HoldsNeededKeys(calls[i], replies[i])
         => /\ Done
            /\ Len(calls) = i
            /\ outcome.error = "VkApiError"
            /\ request.entry = "http" => outcome.status = 502

\* C16: when docs.save answers {"doc": D}, {"type": "doc", "doc": D} or
\* the list [D], the extractor returns D, so that the messages.send that
\* follows carries the attachment of the owner id and the item id of D,
\* whichever of the three shapes held it; for any other `response` (an
\* object without `doc`, an empty list, a number, null) the extractor
\* raises the remote error and the request ends with it.
C16_DocIsExtractedFromEveryShape ==
    \A i \in CallsOf("docs.save") :
        i <= Len(replies) /\ HasResponse(replies[i]) =>
            LET shape == replies[i].response_type
                r == replies[i].json[1]["response"]
            IN  IF SavedRecords(i) # {}
                THEN \A D \in SavedRecords(i) :
                        /\ extract_doc_info(shape, r) = Ok(D)
                        /\ "owner_id" \in DOMAIN D /\ doc_id_of(D) # None =>
                             /\ Len(calls) > i
                             /\ IsMethod(calls[i + 1], "messages.send")
                             /\ calls[i + 1].data["attachment"] =
                                  Attachment(<<"d", "o", "c">>, D["owner_id"],
                                             doc_id_of(D)[1], D)
                ELSE /\ extract_doc_info(shape, r).exc = "VkApiError"
                     /\ Done
                     /\ Len(calls) = i
                     /\ outcome.error = "VkApiError"
                     /\ outcome.detail = video_text.invalid_document

\* docs.save answered with a list of one doc and the video went out as
\* that document
C16_Witness ==
    /\ Done
    /\ outcome.error = "none"
    /\ CallsOf("docs.save") # {}
    /\ \A i \in CallsOf("docs.save") :
         /\ replies[i].response_type = "list"
         /\ replies[i].json[1]["response"] =
              <<[owner_id |-> MaxId, id |-> MaxId, access_key |-> T_k1]>>
         /\ StartsWith(calls[i + 1].data["attachment"],
                       <<"d", "o", "c">> \o Str(MaxId) \o <<"_">>)

\* the messages.send calls whose reply was a success
DeliveredSends ==
    {i \in CallsOf("messages.send") :
        i <= Len(replies) /\ ~ReplyFails(calls[i], replies[i])}

\* C17: a sendVideo request downloads the video once, fallback or not; a
\* messages.send with a doc attachment goes out only after the native
\* video flow has failed, any messages.send of the video before it having
\* failed; so at most one messages.send of the request succeeds.
C17_VideoIsDeliveredAtMostOnce ==
    request.op = "send_video" =>
        /\ Cardinality({i \in 1..Len(calls) : calls[i].kind = "download"}) <= 1
        /\ Len(calls) >= 1 => calls[1].kind = "download"
        /\ Cardinality(DeliveredSends) <= 1
        /\ \A j \in CallsOf("messages.send") :
             StartsWith(calls[j].data["attachment"], <<"d", "o", "c">>) =>
                /\ \E k \in 1..Len(raised) :
                      /\ raised[k].caught
                      /\ raised[k].step \in VideoSteps
                      /\ raised[k].at < j
                /\ \A i \in CallsOf("messages.send") :
                      i < j => ReplyFails(calls[i], replies[i])

\* the messages.send of the video failed with a group-auth error, the
\* fallback sent the document, and the video was fetched once
C17_Witness ==
    /\ Done
    /\ request.op = "send_video"
    /\ outcome.error = "none"
    /\ Cardinality(CallsOf("messages.send")) = 2
    /\ Cardinality(DeliveredSends) = 1
    /\ Cardinality({i \in 1..Len(calls) : calls[i].kind = "download"}) = 1
    /\ Len(raised) = 1
    /\ raised[1].step = "send_video_via_save:messages.send"
============================================================================
